---- MODULE Spec2Model ----
(***************************************************************************)
(* DeepDistill: task orchestration and resilience engine.                  *)
(*                                                                         *)
(* Part I models the API layer's task registry (api.py): the submission    *)
(* handlers, the two task-run coroutines (_run_pipeline and                *)
(* _run_url_pipeline) with the asyncio semaphore, the overall deadline and *)
(* the automatic export, and Pipeline.process (pipeline.py) running on a   *)
(* worker thread and writing progress through the callback.                *)
(*                                                                         *)
(* Part II models the retry loops around external calls:                   *)
(* _call_single_provider (llm_client.py) and the two Drive upload loops    *)
(* (google_docs.py).                                                       *)
(***************************************************************************)
EXTENDS Integers, Sequences, FiniteSets, TLC

\* ---------------------------------------------------------------- bounds
\* Number of task records created in one behaviour.
MaxTasks == 2
\* Largest number of files in one batch request of the model.
MaxBatch == 2
\* Largest number of records in a registry handed to an eviction sweep.
MaxObjs == 3

\* ------------------------------------------------------ program constants
\* api.py:46, DEEPDISTILL_MAX_CONCURRENT (default 3); configured to 1 here.
MAX_CONCURRENT_PIPELINES == 1
\* api.py:54, DEEPDISTILL_MAX_TASKS (default 1000); configured to 1 here.
MAX_TASKS == 1
\* api.py:55, DEEPDISTILL_TASK_EXPIRE_HOURS.
TASK_EXPIRE_HOURS == 24

NULL == "null"

Objs == 1..MaxObjs
Terminal == {"completed", "failed"}

Min(a, b) == IF a <= b THEN a ELSE b

\* Pipeline.PROGRESS_STEPS: the progress window and the label of each stage.
PROGRESS_STEPS ==
    [identify |-> [start |-> 5,  end |-> 10,  label |-> "identify"],
     extract  |-> [start |-> 10, end |-> 35,  label |-> "extract"],
     style    |-> [start |-> 35, end |-> 55,  label |-> "style"],
     ai       |-> [start |-> 55, end |-> 80,  label |-> "ai"],
     output   |-> [start |-> 80, end |-> 90,  label |-> "output"],
     visual   |-> [start |-> 90, end |-> 95,  label |-> "visual"],
     done     |-> [start |-> 95, end |-> 100, label |-> "done"]]

\* Pipeline._report_progress: pct = int(start + span * min(sub_progress, 1.0)).
\* The pipeline only ever passes sub_progress 0.0 or 1.0.
ReportPct(step, sub) ==
    LET info == PROGRESS_STEPS[step]
        span == info.end - info.start
    IN  info.start + span * Min(sub, 1)

VARIABLES
    now,        \* wall clock, in hours
    nobj,       \* number of task records created so far (records are 1..nobj)
    reg,        \* the records currently stored in _tasks
    tasks,      \* the task records (the dict objects)
    runner,     \* which coroutine runs the task: "file" (_run_pipeline) or "url"
    pc,         \* position of the task-run coroutine
    wpc,        \* position of Pipeline.process on its worker thread
    is_video,   \* _run_url_pipeline's local is_video
    sem,        \* _pipeline_semaphore._value
    batch,      \* the process_batch request in progress
    stopped,    \* the event loop has been shut down
    nterm,      \* history: number of writes of a terminal status per record
    rx,         \* Part II: the retry loop in progress
    route,      \* Part III: the call_llm in progress
    res,        \* the ProcessingResult each Pipeline.process run is building
    files,      \* the input file of each run: where it lies, whether it exists
    onloop,     \* history: blocking stage functions the event loop thread ran
    cb,         \* the _on_progress call each worker thread is in the middle of
    reply,      \* the response of the last status query
    pj          \* Part IV: the _parse_json_response call

\* What only the status queries and the parser write.
qvars == <<cb, reply, pj>>

vars == <<now, nobj, reg, tasks, runner, pc, wpc, is_video, sem, batch, stopped,
          nterm, rx, route, res, files, onloop, qvars>>

regvars == <<now, nobj, reg, tasks, runner, pc, wpc, is_video, sem, batch,
             stopped, nterm, res, files, onloop, qvars>>

\* A record as the submission handlers create it (api.py:448-459); Blank stands
\* for a record that does not exist yet.
Blank ==
    [status |-> "none", progress |-> 0, step_label |-> "none", result |-> NULL,
     error |-> NULL, export_result |-> NULL, created_at |-> 0,
     intent |-> "content", auto_export |-> FALSE]

NewTask(label, intent, auto_export) ==
    [status |-> "queued", progress |-> 0, step_label |-> label, result |-> NULL,
     error |-> NULL, export_result |-> NULL, created_at |-> now,
     intent |-> intent, auto_export |-> auto_export]

\* The ProcessingResult of a Pipeline.process run (pipeline.py:24-57) that has
\* not started: source_type, whether extracted_text is non-empty, whether
\* video_analysis or image_style is set, and errors; with them the stages the
\* run has entered and the stage functions it has called.  tasks[o].result
\* stands for res[o].to_dict().
NoResult ==
    [source_type |-> "none", text |-> FALSE, analysis |-> FALSE, errors |-> <<>>,
     stages |-> <<>>, calls |-> <<>>]

\* No input file; the file of a run, by the handler that created the task:
\* uploads are stored under cfg.DATA_DIR / "uploads" before the record is made
\* (api.py:430-445, api.py:696-719), a URL's download or page is written there
\* by the run, and /api/process/local takes the caller's own path, which may or
\* may not have "uploads" in it.
NoFile == [place |-> "none", exists |-> FALSE]

InputFile(which) ==
    CASE which = "url" -> [place |-> "upload_dir", exists |-> FALSE]
      [] which \in {"local", "local_uploads"} -> [place |-> which, exists |-> TRUE]
      [] OTHER -> [place |-> "upload_dir", exists |-> TRUE]

\* No process_batch request is under way.  left is the number of files still
\* to be read and made the number of records the request has created.
NoBatch == [left |-> 0, intent |-> "content", auto_export |-> FALSE, made |-> 0]

RegInit ==
    /\ now = 0
    /\ nobj = 0
    /\ reg = {}
    /\ tasks = [o \in Objs |-> Blank]
    /\ runner = [o \in Objs |-> "none"]
    /\ pc = [o \in Objs |-> "none"]
    /\ wpc = [o \in Objs |-> "idle"]
    /\ is_video = [o \in Objs |-> FALSE]
    /\ sem = MAX_CONCURRENT_PIPELINES
    /\ batch = NoBatch
    /\ stopped = FALSE
    /\ nterm = [o \in Objs |-> 0]
    /\ res = [o \in Objs |-> NoResult]
    /\ files = [o \in Objs |-> NoFile]
    /\ onloop = {}

\* cfg.GOOGLE_DOCS_ENABLED as read at api.py:905 and api.py:650: the deployment
\* has the Drive export switched on, so opts["auto_export"] decides.
GOOGLE_DOCS_ENABLED == TRUE

\* ------------------------------------------------------------ the registry

\* api.py:76-78: a terminal record older than TASK_EXPIRE_HOURS.
IsExpired(o) ==
    /\ tasks[o].status \in Terminal
    /\ (now - tasks[o].created_at) > TASK_EXPIRE_HOURS

\* Variant: the terminal records sorted with the most recent first.
Older_Reversed(p, o) ==
    \/ tasks[p].created_at > tasks[o].created_at
    \/ (tasks[p].created_at = tasks[o].created_at /\ p > o)

\* api.py:89-90: the terminal records sorted by created_at; the sort is stable
\* and the dict iterates in insertion order, so ties keep creation order.
Older(p, o) ==
    \/ tasks[p].created_at < tasks[o].created_at
    \/ (tasks[p].created_at = tasks[o].created_at /\ p < o)

\* Variant: the forced removal takes the oldest records of any status.
ForcedRemoved_AnyStatus(r) ==
    LET remove_count == Cardinality(r) - MAX_TASKS
    IN  {o \in r : Cardinality({p \in r : Older(p, o)}) < remove_count}

\* api.py:88-94: the first remove_count records of that sorted list.
ForcedRemoved(r) ==
    LET completed == {o \in r : tasks[o].status \in Terminal}
        remove_count == Cardinality(r) - MAX_TASKS
    IN  {o \in completed : Cardinality({p \in completed : Older(p, o)}) < remove_count}

\* _cleanup_old_tasks: the registry after a sweep of registry r.
Cleanup(r) ==
    IF Cardinality(r) <= MAX_TASKS
    THEN r
    ELSE LET r1 == r \ {o \in r : IsExpired(o)}
         IN  IF Cardinality(r1) > MAX_TASKS THEN r1 \ ForcedRemoved(r1) ELSE r1

\* _tasks[task_id] = {...}; asyncio.create_task(run(task_id, ...)) on a registry
\* r: the record nobj+1 is created in state queued and its run is scheduled.
\* The files of a batch under way count towards the bound on records.
Create(r, which, label, intent, auto_export) ==
    LET o == nobj + 1 IN
    /\ nobj + (IF which = "batch" THEN 0 ELSE batch.left) < MaxTasks
    /\ nobj' = o
    /\ reg' = r \cup {o}
    /\ tasks' = [tasks EXCEPT ![o] = NewTask(label, intent, auto_export)]
    /\ runner' = [runner EXCEPT ![o] = IF which = "url" THEN "url" ELSE "file"]
    /\ pc' = [pc EXCEPT ![o] = "created"]
    /\ files' = [files EXCEPT ![o] = InputFile(which)]

\* POST /api/process: sweep, store the upload, create the record, schedule.
process_file(intent, auto_export) ==
    /\ ~stopped
    /\ Create(Cleanup(reg), "file", "queued", intent, auto_export)
    /\ UNCHANGED <<now, wpc, is_video, sem, batch, stopped, nterm, rx, route, res,
                   onloop, qvars>>

\* POST /api/process with an upload over MAX_SINGLE_FILE_SIZE: the sweep has
\* run, the partial file is removed and HTTP 413 is raised; no record is made.
process_file_too_large ==
    /\ ~stopped
    /\ reg' = Cleanup(reg)
    /\ UNCHANGED <<now, nobj, tasks, runner, pc, wpc, is_video, sem, batch,
                   stopped, nterm, rx, route, res,
                   files, onloop, qvars>>

\* POST /api/process/local: default options, no sweep.
process_local(place) ==
    /\ ~stopped
    /\ Create(reg, place, "queued", "content", TRUE)
    /\ UNCHANGED <<now, wpc, is_video, sem, batch, stopped, nterm, rx, route, res,
                   onloop, qvars>>

\* POST /api/process/url.
process_url(intent, auto_export) ==
    /\ ~stopped
    /\ Create(reg, "url", "queued_url", intent, auto_export)
    /\ UNCHANGED <<now, wpc, is_video, sem, batch, stopped, nterm, rx, route, res,
                   onloop, qvars>>

\* POST /api/process/batch, up to the loop over the files: the sweep and the
\* parsed options.  The handler awaits file.read() for every file, so other
\* coroutines run between two files of the batch.
process_batch(n, intent, auto_export) ==
    /\ ~stopped
    /\ batch.left = 0
    /\ nobj + n <= MaxTasks
    /\ n <= 20
    /\ reg' = Cleanup(reg)
    /\ batch' = [left |-> n, intent |-> intent, auto_export |-> auto_export,
                 made |-> 0]
    /\ UNCHANGED <<now, nobj, tasks, runner, pc, wpc, is_video, sem, stopped,
                   nterm, rx, route, res,
                   files, onloop, qvars>>

\* One iteration of process_batch's loop (api.py:694-734).
process_batch_file ==
    /\ ~stopped
    /\ batch.left > 0
    /\ Create(reg, "batch", "queued", batch.intent, batch.auto_export)
    /\ batch' = IF batch.left = 1
                THEN NoBatch
                ELSE [batch EXCEPT !.left = @ - 1, !.made = @ + 1]
    /\ UNCHANGED <<now, wpc, is_video, sem, stopped, nterm, rx, route, res,
                   onloop, qvars>>

\* An iteration of the loop whose file is over MAX_SINGLE_FILE_SIZE or takes
\* the batch over MAX_BATCH_TOTAL_SIZE (api.py:701-717): the partial file is
\* removed and HTTP 413 is raised.  The records of the files before it stay
\* in the registry and their runs stay scheduled.
process_batch_file_too_large ==
    /\ ~stopped
    /\ batch.left > 0
    /\ batch' = NoBatch
    /\ UNCHANGED <<now, nobj, reg, tasks, runner, pc, wpc, is_video, sem,
                   stopped, nterm, rx, route, res, files, onloop, qvars>>

\* POST /api/process/batch with more than 20 files (api.py:681-682): HTTP 400
\* before the sweep and before any file is read; the handler has changed
\* nothing.
process_batch_too_many ==
    /\ ~stopped
    /\ batch.left = 0
    /\ UNCHANGED vars

\* _periodic_cleanup: one sweep of the background loop.
periodic_cleanup ==
    /\ ~stopped
    /\ reg' = Cleanup(reg)
    /\ UNCHANGED <<now, nobj, tasks, runner, pc, wpc, is_video, sem, batch,
                   stopped, nterm, rx, route, res,
                   files, onloop, qvars>>

\* ------------------------------------------------- the concurrency gate

\* Variant: a gate that never makes a caller wait.
Locked_Never(v) == FALSE

\* asyncio.Semaphore.locked(): no slot is free.
Locked(v) == v = 0

\* asyncio.Semaphore.acquire() past the wait: one slot is taken.
Acquire(v) == v - 1

\* asyncio.Semaphore.release(), run by "async with" on every way out.
Release(v) == v + 1

\* api.py:859 / api.py:547: the number of stored records in "processing".
Active == Cardinality({p \in reg : tasks[p].status = "processing"})

\* ------------------------------------------------------ writes to a record

\* Variant: the failure path sets the status and the label but no error.
Failed_NoError(t, err, label) ==
    [t EXCEPT !.status = "failed",
              !.step_label = IF label = "keep" THEN @ ELSE label]

\* A terminal failure as the run coroutines write it: status and error, and the
\* step label where the code sets one (keep = the label is left as it is).
Failed(t, err, label) ==
    [t EXCEPT !.status = "failed", !.error = err,
              !.step_label = IF label = "keep" THEN @ ELSE label]

\* Variant: completion leaves the progress where the callback put it.
Completed_NoProgress(t) ==
    [t EXCEPT !.status = "completed", !.step_label = "complete",
              !.result = "result"]

\* api.py:899-902 / api.py:644-647: the writes on a non-null result.
Completed(t) ==
    [t EXCEPT !.status = "completed", !.progress = 100,
              !.step_label = "complete", !.result = "result"]

\* Variant: the URL callback passes the pipeline's percentage on unmapped.
UrlMapped_NoBase(pct, video) == Min(pct, 95)

\* _run_url_pipeline._on_progress (api.py:615-619): the pipeline's percentage
\* mapped onto what is left after the download or the fetch.
UrlMapped(pct, video) ==
    LET base == IF video THEN 15 ELSE 10
    IN  Min(base + ((pct - 5) * (95 - base)) \div 95, 95)

\* Variant: the progress callback also writes the status.
OnProgress_SetsStatus(o, pct, label) ==
    [tasks EXCEPT ![o].progress = IF runner[o] = "url"
                                  THEN UrlMapped(pct, is_video[o]) ELSE pct,
                  ![o].step_label = label,
                  ![o].status = "processing"]

\* The progress callback of record o, as Pipeline._report_progress calls it:
\* _run_pipeline._on_progress (api.py:869-872) or the URL one.
OnProgress(o, pct, label) ==
    IF runner[o] = "url"
    THEN [tasks EXCEPT ![o].progress = UrlMapped(pct, is_video[o]),
                       ![o].step_label = label]
    ELSE [tasks EXCEPT ![o].progress = pct, ![o].step_label = label]

\* ------------------------------------------------- the task-run coroutines

Holding == {"await_probe", "await_download", "await_fetch", "await_browser",
            "await_process", "await_export"}

\* The body of "async with _pipeline_semaphore" up to its first await.
\* _run_pipeline (api.py:865-890): processing, 5, the pipeline goes to a worker.
\* _run_url_pipeline (api.py:555-566): processing, 2, probe_video goes to a worker.
Enter(o, t) ==
    IF runner[o] = "file"
    THEN /\ tasks' = [tasks EXCEPT ![o] = [t EXCEPT !.status = "processing",
                                                   !.progress = 5,
                                                   !.step_label = "preparing"]]
         /\ pc' = [pc EXCEPT ![o] = "await_process"]
         /\ wpc' = [wpc EXCEPT ![o] = "identify0"]
    ELSE /\ tasks' = [tasks EXCEPT ![o] = [t EXCEPT !.status = "processing",
                                                   !.progress = 2,
                                                   !.step_label = "detecting"]]
         /\ pc' = [pc EXCEPT ![o] = "await_probe"]
         /\ wpc' = wpc

\* The first step of a run (api.py:855-863 / api.py:543-553): the queue label
\* when the ceiling is reached, then the semaphore: taken at once when a slot
\* is free, otherwise the coroutine waits.  With a slot free and a woken
\* waiter not yet run, the newcomer takes the slot or queues behind the
\* waiter, depending on the version of asyncio.
RunStart(o) ==
    /\ ~stopped
    /\ pc[o] = "created"
    /\ LET t == IF Active >= MAX_CONCURRENT_PIPELINES
                THEN [tasks[o] EXCEPT !.step_label = "queue_ahead"]
                ELSE tasks[o]
       IN  \/ /\ Locked(sem) \/ \E p \in Objs : pc[p] = "waiting"
              /\ tasks' = [tasks EXCEPT ![o] = t]
              /\ pc' = [pc EXCEPT ![o] = "waiting"]
              /\ UNCHANGED <<wpc, sem>>
           \/ /\ ~Locked(sem)
              /\ sem' = Acquire(sem)
              /\ Enter(o, t)
    /\ UNCHANGED <<now, nobj, reg, runner, is_video, batch, stopped, nterm, rx, route, res,
                   files, onloop, qvars>>

\* A waiting run is woken after a release and takes the slot.
Admit(o) ==
    /\ ~stopped
    /\ pc[o] = "waiting"
    /\ ~Locked(sem)
    /\ sem' = Acquire(sem)
    /\ Enter(o, tasks[o])
    /\ UNCHANGED <<now, nobj, reg, runner, is_video, batch, stopped, nterm, rx, route, res,
                   files, onloop, qvars>>

\* The finally clause of a run (api.py:917-923 / api.py:662-668): the file is
\* removed when it exists and its path has "uploads" in it.
Cleaned(f) ==
    IF f.exists /\ f.place \in {"upload_dir", "local_uploads"}
    THEN [f EXCEPT !.exists = FALSE]
    ELSE f

\* Variant: a way out that keeps the slot.
Exit_NoRelease(o) ==
    /\ pc' = [pc EXCEPT ![o] = "returned"]
    /\ files' = [files EXCEPT ![o] = Cleaned(@)]
    /\ UNCHANGED sem

\* Leaving "async with" through return or through the except clause: the
\* finally clause removes the temporary file and the slot is released.
Exit(o) ==
    /\ pc' = [pc EXCEPT ![o] = "returned"]
    /\ files' = [files EXCEPT ![o] = Cleaned(@)]
    /\ sem' = Release(sem)

\* The run of o ends in failure err: the terminal writes and the way out.
Fail(o, err, label) ==
    /\ tasks' = [tasks EXCEPT ![o] = Failed(@, err, label)]
    /\ nterm' = [nterm EXCEPT ![o] = @ + 1]
    /\ Exit(o)

\* Pipeline.process is handed to the executor once the input file is there.
StartPipeline(o, pct, label) ==
    /\ tasks' = [tasks EXCEPT ![o].progress = pct, ![o].step_label = label]
    /\ pc' = [pc EXCEPT ![o] = "await_process"]
    /\ wpc' = [wpc EXCEPT ![o] = "identify0"]

\* probe_video returns to _run_url_pipeline (api.py:565-597).
ProbeReturn(o, r) ==
    /\ ~stopped
    /\ pc[o] = "await_probe"
    /\ CASE r = "cookie" ->
              \* VideoCookieRequired: failed, error, label, return.
              /\ Fail(o, "cookie", "cookie")
              /\ UNCHANGED <<is_video, wpc>>
         [] r = "error" ->
              \* any other exception: the except clause of the run.
              /\ Fail(o, "exception", "keep")
              /\ UNCHANGED <<is_video, wpc>>
         [] r = "video" ->
              /\ is_video' = [is_video EXCEPT ![o] = TRUE]
              /\ tasks' = [tasks EXCEPT ![o].progress = 5,
                                        ![o].step_label = "downloading"]
              /\ pc' = [pc EXCEPT ![o] = "await_download"]
              /\ UNCHANGED <<sem, nterm, wpc, files>>
         [] r = "page" ->
              /\ tasks' = [tasks EXCEPT ![o].progress = 5,
                                        ![o].step_label = "fetching"]
              /\ pc' = [pc EXCEPT ![o] = "await_fetch"]
              /\ UNCHANGED <<sem, nterm, is_video, wpc, files>>
    /\ UNCHANGED <<now, nobj, reg, runner, batch, stopped, rx, route, res,
                   onloop, qvars>>

\* download_video returns (api.py:585-588) or raises.
DownloadReturn(o, ok) ==
    /\ ~stopped
    /\ pc[o] = "await_download"
    /\ IF ok
       THEN /\ StartPipeline(o, 15, "downloaded")
            /\ files' = [files EXCEPT ![o].exists = TRUE]
            /\ UNCHANGED <<sem, nterm>>
       ELSE /\ Fail(o, "exception", "keep")
            /\ UNCHANGED wpc
    /\ UNCHANGED <<now, nobj, reg, runner, is_video, batch, stopped, rx, route, res,
                   onloop, qvars>>

\* fetch_url returns (api.py:597-612): the coroutine itself calls extract_text
\* on the page (api.py:600), on the event loop thread; a verification or empty
\* page is fetched again with the browser.
FetchReturn(o, r) ==
    /\ ~stopped
    /\ pc[o] = "await_fetch"
    /\ CASE r = "error" ->
              /\ Fail(o, "exception", "keep")
              /\ UNCHANGED <<wpc, onloop>>
         [] r = "verification" ->
              /\ tasks' = [tasks EXCEPT ![o].step_label = "browser"]
              /\ pc' = [pc EXCEPT ![o] = "await_browser"]
              /\ files' = [files EXCEPT ![o].exists = TRUE]
              /\ onloop' = onloop \cup {"extract_text"}
              /\ UNCHANGED <<sem, nterm, wpc>>
         [] r = "page" ->
              /\ StartPipeline(o, 10, "fetched")
              /\ files' = [files EXCEPT ![o].exists = TRUE]
              /\ onloop' = onloop \cup {"extract_text"}
              /\ UNCHANGED <<sem, nterm>>
    /\ UNCHANGED <<now, nobj, reg, runner, is_video, batch, stopped, rx, route, res,
                   qvars>>

\* fetch_url_with_browser returns or raises (api.py:602-612): a failure is
\* logged and the first fetch is used, so both outcomes go on alike.
BrowserReturn(o) ==
    /\ ~stopped
    /\ pc[o] = "await_browser"
    /\ StartPipeline(o, 10, "fetched")
    /\ UNCHANGED <<now, nobj, reg, runner, is_video, sem, batch, stopped,
                   nterm, rx, route, res,
                   files, onloop, qvars>>

\* asyncio.wait_for expires (api.py:891-896 / api.py:636-641): failed with the
\* timeout error, return.  The worker thread is not stopped; a worker that had
\* already returned has its result dropped.
Timeout(o) ==
    /\ ~stopped
    /\ pc[o] = "await_process"
    /\ Fail(o, "timeout", "timeout")
    /\ wpc' = [wpc EXCEPT ![o] = IF @ \in {"ret_ok", "ret_none", "ret_exc"}
                                 THEN "idle" ELSE @]
    /\ UNCHANGED <<now, nobj, reg, runner, is_video, batch, stopped, rx, route, res,
                   onloop, qvars>>

\* Pipeline.process has returned to the coroutine (api.py:898-916 /
\* api.py:643-661).
ProcessReturn(o) ==
    /\ ~stopped
    /\ pc[o] = "await_process"
    /\ wpc[o] \in {"ret_ok", "ret_none", "ret_exc"}
    /\ wpc' = [wpc EXCEPT ![o] = "idle"]
    /\ CASE wpc[o] = "ret_ok" ->
              /\ nterm' = [nterm EXCEPT ![o] = @ + 1]
              /\ IF tasks[o].auto_export /\ GOOGLE_DOCS_ENABLED
                 THEN /\ tasks' = [tasks EXCEPT ![o] =
                                     [Completed(@) EXCEPT !.step_label = "exporting"]]
                      /\ pc' = [pc EXCEPT ![o] = "await_export"]
                      /\ UNCHANGED <<sem, files>>
                 ELSE /\ tasks' = [tasks EXCEPT ![o] = Completed(@)]
                      /\ Exit(o)
         [] wpc[o] = "ret_none" -> Fail(o, "unsupported", "keep")
         [] wpc[o] = "ret_exc" -> Fail(o, "exception", "keep")
    /\ UNCHANGED <<now, nobj, reg, runner, is_video, batch, stopped, rx, route, res,
                   onloop, qvars>>

\* _auto_export's upload has returned or raised (api.py:837-849), then
\* api.py:908 / api.py:653 and the way out.
ExportReturn(o, ok) ==
    /\ ~stopped
    /\ pc[o] = "await_export"
    /\ tasks' = [tasks EXCEPT
                   ![o].export_result = IF ok THEN "exported" ELSE "export_error",
                   ![o].step_label = "export_done"]
    /\ Exit(o)
    /\ UNCHANGED <<now, nobj, reg, runner, wpc, is_video, batch, stopped,
                   nterm, rx, route, res,
                   onloop, qvars>>

\* The event loop shuts down: every pending run is cancelled at its await.
\* CancelledError is no Exception, so no except clause runs; "async with" and
\* finally still do.  Worker threads run on.
Shutdown ==
    /\ ~stopped
    /\ nobj > 0
    /\ stopped' = TRUE
    /\ pc' = [o \in Objs |->
                IF pc[o] \in Holding \cup {"created", "waiting"}
                THEN "cancelled" ELSE pc[o]]
    /\ sem' = sem + Cardinality({o \in Objs : pc[o] \in Holding})
    /\ files' = [o \in Objs |->
                   IF pc[o] \in Holding THEN Cleaned(files[o]) ELSE files[o]]
    /\ wpc' = [o \in Objs |-> IF wpc[o] \in {"ret_ok", "ret_none", "ret_exc"}
                              THEN "idle" ELSE wpc[o]]
    /\ UNCHANGED <<now, nobj, reg, tasks, runner, is_video, batch, nterm, rx, route, res,
                   onloop, qvars>>

\* --------------------------------- Pipeline.process on its worker thread

\* self._report_progress(step, sub): the callback writes into the record.
Report(o, step, sub) ==
    tasks' = OnProgress(o, ReportPct(step, sub), PROGRESS_STEPS[step].label)

\* The worker returns r; a worker whose run has already timed out or been
\* cancelled has nobody waiting and simply ends.
Return(o, r) ==
    wpc' = [wpc EXCEPT ![o] = IF pc[o] = "await_process" THEN r ELSE "idle"]

WorkerFrame ==
    UNCHANGED <<now, nobj, reg, runner, pc, is_video, sem, batch, stopped, nterm,
                rx, route, files, onloop, qvars>>

\* The kinds identify_file_type tells apart, as far as the stages differ:
\* audio and webpage go the way of document.
SourceTypes == {"document", "image", "video"}

\* cfg.VIDEO_ANALYSIS_LEVEL: the deployment has video analysis switched on.
VIDEO_ANALYSIS_LEVEL == "basic"

\* pipeline.py:162 and pipeline.py:171: the inputs the style stage has an
\* analysis for.
Analysed(source_type) ==
    \/ source_type = "video" /\ VIDEO_ANALYSIS_LEVEL /= "off"
    \/ source_type = "image"

\* The declared order of the stages.
StageOrder == <<"identify", "extract", "style", "ai", "output", "visual", "done">>

\* The run enters a stage; the run calls the function of a stage.
Entered(r, step) == [r EXCEPT !.stages = Append(@, step)]

Calling(r, step) == [r EXCEPT !.calls = Append(@, step)]

\* "except Exception as e: result.errors.append(...)" of a stage.
Recorded(r, step) == [r EXCEPT !.errors = Append(@, step)]

\* Variant: an unsupported format is processed like any other.
Identify_AnyKind(o, r) ==
    /\ wpc[o] = "identify0"
    /\ Report(o, "identify", 0)
    /\ LET run == Calling(Entered(res[o], "identify"), "identify")
       IN  IF r = "raise"
           THEN /\ Return(o, "ret_exc")
                /\ res' = [res EXCEPT ![o] = [run EXCEPT !.source_type = "raised"]]
           ELSE /\ wpc' = [wpc EXCEPT ![o] = "identify1"]
                /\ res' = [res EXCEPT ![o] = [run EXCEPT !.source_type = r]]
    /\ WorkerFrame

\* pipeline.py:132-136: identify 0.0, then _identify_type: a type, None for an
\* unsupported format (process returns None), or an exception.
Identify(o, r) ==
    /\ wpc[o] = "identify0"
    /\ Report(o, "identify", 0)
    /\ LET run == Calling(Entered(res[o], "identify"), "identify")
       IN  CASE r \in SourceTypes ->
                  /\ wpc' = [wpc EXCEPT ![o] = "identify1"]
                  /\ res' = [res EXCEPT ![o] = [run EXCEPT !.source_type = r]]
             [] r = "unsupported" ->
                  /\ Return(o, "ret_none")
                  /\ res' = [res EXCEPT ![o] = [run EXCEPT !.source_type = "unsupported"]]
             [] r = "raise" ->
                  /\ Return(o, "ret_exc")
                  /\ res' = [res EXCEPT ![o] = [run EXCEPT !.source_type = "raised"]]
    /\ WorkerFrame

\* pipeline.py:137-146: identify 1.0 and the ProcessingResult.
IdentifyDone(o) ==
    /\ wpc[o] = "identify1"
    /\ Report(o, "identify", 1)
    /\ wpc' = [wpc EXCEPT ![o] = "extract0"]
    /\ UNCHANGED res
    /\ WorkerFrame

\* pipeline.py:149-151: extract 0.0 and the call of _extract_content.
Extract(o) ==
    /\ wpc[o] = "extract0"
    /\ Report(o, "extract", 0)
    /\ wpc' = [wpc EXCEPT ![o] = "extract1"]
    /\ res' = [res EXCEPT ![o] = Calling(Entered(@, "extract"), "extract")]
    /\ WorkerFrame

\* Variant: a failed extraction is tried again.
ExtractDone_Retry(o, r) ==
    /\ wpc[o] = "extract1"
    /\ Report(o, "extract", 1)
    /\ wpc' = [wpc EXCEPT ![o] = IF r = "raise" THEN "extract0" ELSE "style0"]
    /\ res' = [res EXCEPT ![o] = IF r = "raise" THEN Recorded(@, "extract")
                                 ELSE [@ EXCEPT !.text = (r = "text")]]
    /\ WorkerFrame

\* pipeline.py:151-156: _extract_content returns a text, returns an empty
\* text, or raises; the exception is caught and recorded; extract 1.0.
ExtractDone(o, r) ==
    /\ wpc[o] = "extract1"
    /\ r \in {"text", "empty", "raise"}
    /\ Report(o, "extract", 1)
    /\ wpc' = [wpc EXCEPT ![o] = "style0"]
    /\ res' = [res EXCEPT ![o] = IF r = "raise" THEN Recorded(@, "extract")
                                 ELSE [@ EXCEPT !.text = (r = "text")]]
    /\ WorkerFrame

\* pipeline.py:159-181: with intent "style", style 0.0 and the analysis the
\* source type has; with any other intent the stage is skipped and style 1.0
\* is reported at once.
Style(o) ==
    /\ wpc[o] = "style0"
    /\ IF tasks[o].intent = "style"
       THEN /\ Report(o, "style", 0)
            /\ wpc' = [wpc EXCEPT ![o] = "style1"]
            /\ res' = [res EXCEPT ![o] =
                         IF Analysed(@.source_type)
                         THEN Calling(Entered(@, "style"), "style")
                         ELSE Entered(@, "style")]
       ELSE /\ Report(o, "style", 1)
            /\ wpc' = [wpc EXCEPT ![o] = "ai0"]
            /\ res' = [res EXCEPT ![o] = Entered(@, "style")]
    /\ WorkerFrame

\* Variant: an analysis that raises ends the run.
StyleDone_Fatal(o, ok) ==
    /\ wpc[o] = "style1"
    /\ ok \/ Analysed(res[o].source_type)
    /\ Report(o, "style", 1)
    /\ IF ok THEN wpc' = [wpc EXCEPT ![o] = "ai0"] ELSE Return(o, "ret_exc")
    /\ res' = [res EXCEPT ![o] =
                 IF ~Analysed(@.source_type) THEN @
                 ELSE IF ok THEN [@ EXCEPT !.analysis = TRUE]
                 ELSE Recorded(@, "style")]
    /\ WorkerFrame

\* pipeline.py:163-178: the analysis returns, or raises and is recorded;
\* style 1.0.
StyleDone(o, ok) ==
    /\ wpc[o] = "style1"
    /\ ok \/ Analysed(res[o].source_type)
    /\ Report(o, "style", 1)
    /\ wpc' = [wpc EXCEPT ![o] = "ai0"]
    /\ res' = [res EXCEPT ![o] =
                 IF ~Analysed(@.source_type) THEN @
                 ELSE IF ok THEN [@ EXCEPT !.analysis = TRUE]
                 ELSE Recorded(@, "style")]
    /\ WorkerFrame

\* pipeline.py:184-187: ai 0.0, and _ai_analyze is called when there is a
\* text or an analysis.
Ai(o) ==
    /\ wpc[o] = "ai0"
    /\ Report(o, "ai", 0)
    /\ wpc' = [wpc EXCEPT ![o] = "ai1"]
    /\ res' = [res EXCEPT ![o] =
                 IF @.text \/ @.analysis
                 THEN Calling(Entered(@, "ai"), "ai")
                 ELSE Entered(@, "ai")]
    /\ WorkerFrame

\* pipeline.py:187-196: _ai_analyze returns, or raises and is recorded; ai 1.0.
AiDone(o, ok) ==
    /\ wpc[o] = "ai1"
    /\ LET called == res[o].text \/ res[o].analysis
       IN  /\ ok \/ called
           /\ res' = [res EXCEPT ![o] =
                        IF called /\ ~ok THEN Recorded(@, "ai") ELSE @]
    /\ Report(o, "ai", 1)
    /\ wpc' = [wpc EXCEPT ![o] = "output0"]
    /\ WorkerFrame

\* pipeline.py:199-201: output 0.0 and the call of _generate_output.
Output(o) ==
    /\ wpc[o] = "output0"
    /\ Report(o, "output", 0)
    /\ wpc' = [wpc EXCEPT ![o] = "output1"]
    /\ res' = [res EXCEPT ![o] = Calling(Entered(@, "output"), "output")]
    /\ WorkerFrame

\* pipeline.py:201-206: _generate_output returns, or raises and is recorded;
\* output 1.0.
OutputDone(o, ok) ==
    /\ wpc[o] = "output1"
    /\ Report(o, "output", 1)
    /\ wpc' = [wpc EXCEPT ![o] = "visual"]
    /\ res' = [res EXCEPT ![o] = IF ok THEN @ ELSE Recorded(@, "output")]
    /\ WorkerFrame

\* pipeline.py:209: the visual stage only reports.
Visual(o) ==
    /\ wpc[o] = "visual"
    /\ Report(o, "visual", 1)
    /\ wpc' = [wpc EXCEPT ![o] = "done"]
    /\ res' = [res EXCEPT ![o] = Entered(@, "visual")]
    /\ WorkerFrame

\* pipeline.py:211-215: done 1.0 and the result is returned.
Done(o) ==
    /\ wpc[o] = "done"
    /\ Report(o, "done", 1)
    /\ Return(o, "ret_ok")
    /\ res' = [res EXCEPT ![o] = Entered(@, "done")]
    /\ WorkerFrame

\* ------------------------------------------------------- specification

\* The options a request of the model carries: ProcessOptions' defaults
\* (intent "content", auto_export true), or a style analysis without export.
Options == {[intent |-> "content", auto_export |-> TRUE],
            [intent |-> "style", auto_export |-> FALSE]}

Submit ==
    \/ \E op \in Options : process_file(op.intent, op.auto_export)
    \/ process_file_too_large
    \/ \E place \in {"local", "local_uploads"} : process_local(place)
    \/ \E op \in Options : process_url(op.intent, op.auto_export)
    \/ \E n \in 1..MaxBatch, op \in Options :
          process_batch(n, op.intent, op.auto_export)
    \/ process_batch_file
    \/ process_batch_file_too_large
    \/ process_batch_too_many

Loop ==
    \/ \E o \in Objs : RunStart(o)
    \/ \E o \in Objs : Admit(o)
    \/ \E o \in Objs, r \in {"video", "page", "cookie", "error"} : ProbeReturn(o, r)
    \/ \E o \in Objs, ok \in BOOLEAN : DownloadReturn(o, ok)
    \/ \E o \in Objs, r \in {"page", "verification", "error"} : FetchReturn(o, r)
    \/ \E o \in Objs : BrowserReturn(o)
    \/ \E o \in Objs : Timeout(o)
    \/ \E o \in Objs : ProcessReturn(o)
    \/ \E o \in Objs, ok \in BOOLEAN : ExportReturn(o, ok)
    \/ periodic_cleanup

\* The worker threads of the API layer's model: documents whose stages
\* return; the stage failures are the subject of PipeSpec.
Worker ==
    \/ \E o \in Objs, r \in {"document", "unsupported", "raise"} : Identify(o, r)
    \/ \E o \in Objs : IdentifyDone(o)
    \/ \E o \in Objs : Extract(o)
    \/ \E o \in Objs : ExtractDone(o, "text")
    \/ \E o \in Objs : Style(o)
    \/ \E o \in Objs : StyleDone(o, TRUE)
    \/ \E o \in Objs : Ai(o)
    \/ \E o \in Objs : AiDone(o, TRUE)
    \/ \E o \in Objs : Output(o)
    \/ \E o \in Objs : OutputDone(o, TRUE)
    \/ \E o \in Objs : Visual(o)
    \/ \E o \in Objs : Done(o)

\* One submission and its run, with every outcome of every stage.  The
\* deadline (DEEPDISTILL_PIPELINE_TIMEOUT, 3600 s by default) lies beyond the
\* run and the server is not shut down.
PipeSubmit(intent, auto_export) ==
    /\ nobj = 0
    /\ process_file(intent, auto_export)

PipeSubmitUrl(intent, auto_export) ==
    /\ nobj = 0
    /\ process_url(intent, auto_export)

PipeNext ==
    \/ \E op \in Options : PipeSubmit(op.intent, op.auto_export)
    \/ \E op \in Options : PipeSubmitUrl(op.intent, op.auto_export)
    \/ \E o \in Objs : RunStart(o)
    \/ \E o \in Objs, r \in {"video", "page", "cookie", "error"} : ProbeReturn(o, r)
    \/ \E o \in Objs, ok \in BOOLEAN : DownloadReturn(o, ok)
    \/ \E o \in Objs, r \in {"page", "verification", "error"} : FetchReturn(o, r)
    \/ \E o \in Objs : BrowserReturn(o)
    \/ \E o \in Objs : ProcessReturn(o)
    \/ \E o \in Objs, ok \in BOOLEAN : ExportReturn(o, ok)
    \/ \E o \in Objs, r \in SourceTypes \cup {"unsupported", "raise"} : Identify(o, r)
    \/ \E o \in Objs : IdentifyDone(o)
    \/ \E o \in Objs : Extract(o)
    \/ \E o \in Objs, r \in {"text", "empty", "raise"} : ExtractDone(o, r)
    \/ \E o \in Objs : Style(o)
    \/ \E o \in Objs, ok \in BOOLEAN : StyleDone(o, ok)
    \/ \E o \in Objs : Ai(o)
    \/ \E o \in Objs, ok \in BOOLEAN : AiDone(o, ok)
    \/ \E o \in Objs : Output(o)
    \/ \E o \in Objs, ok \in BOOLEAN : OutputDone(o, ok)
    \/ \E o \in Objs : Visual(o)
    \/ \E o \in Objs : Done(o)

\* ======================================================================
\* Part II: the retry loops around external calls
\* ======================================================================

\* Largest max_retries a caller of _call_single_provider passes in the model
\* (the parameter's default is 3, llm_client.py:52).
MaxRetriesArg == 3

\* google_docs.py:26-27.
GDRIVE_MAX_RETRIES == 3
GDRIVE_RETRY_DELAY == 2

\* The three loops: _call_single_provider, GoogleDocsExporter.export_markdown
\* and GoogleDocsExporter._upload_binary_to_drive.
Loops == {"llm", "export_markdown", "upload_binary"}

\* The ways one invocation of the remote API fails.
Failures == {"network", "auth", "timeout"}

\* Variant: a constant wait between attempts.
Backoff_Constant(b, attempt) == b

\* llm_client.py:110 "wait = 2 ** attempt" (base 1); google_docs.py:316 and
\* google_docs.py:904 "wait = GDRIVE_RETRY_DELAY * (2 ** attempt)".
Backoff(b, attempt) == b * 2^attempt

\* The base of a loop's backoff.
Base(loop) == IF loop = "llm" THEN 1 ELSE GDRIVE_RETRY_DELAY

\* "if attempt < max_retries - 1": attempts remain, so the loop sleeps.
AttemptsRemain(attempt, m) == attempt < m - 1

\* An error is what was raised, the attempt that raised it, and the text of the
\* error a new error was built from; last_error starts as None.
NoError == [kind |-> "None", attempt |-> -1, text |-> ""]

Error(kind, attempt) == [kind |-> kind, attempt |-> attempt, text |-> ""]

\* Variant: the loop keeps the error of its first failed attempt.
KeepError_First(prev, e) == IF prev = NoError THEN e ELSE prev

\* "last_error = e" in the except clause of each loop.
KeepError(prev, e) == e

\* What the loop raises when the last attempt has failed.  llm_client.py:116
\* "raise last_error"; google_docs.py:320 and google_docs.py:908 raise a new
\* RuntimeError whose message holds the text of last_error.
Raised(loop, last_error) ==
    IF loop = "llm"
    THEN last_error
    ELSE [kind |-> "RuntimeError", attempt |-> last_error.attempt,
          text |-> last_error.kind]

\* Variant: no check before the loop, so a configuration error shows in the
\* loop as a failed attempt.
ConfigError_None(conf) == NoError

\* llm_client.py:61-66: the checks before the loop.  An unknown provider name
\* or a missing API key raises ValueError at once.
ConfigError(conf) ==
    IF conf = "ok" THEN NoError
    ELSE [kind |-> "ValueError", attempt |-> -1, text |-> conf]

RxIdle ==
    [state |-> "idle", loop |-> "llm", conf |-> "ok", m |-> 0, attempt |-> 0,
     last_error |-> NoError, log |-> <<>>, result |-> -1, raised |-> NoError]

\* _call_single_provider is called with max_retries = m for a provider whose
\* configuration is conf: the checks before the loop (llm_client.py:61-85).
Called(m, conf) ==
    IF ConfigError(conf) /= NoError
    THEN [RxIdle EXCEPT !.state = "raised", !.conf = conf, !.m = m,
                        !.raised = ConfigError(conf)]
    ELSE [RxIdle EXCEPT !.state = "loop", !.loop = "llm", !.conf = conf, !.m = m]

CallProvider(m, conf) ==
    /\ rx.state = "idle"
    /\ rx' = Called(m, conf)
    /\ UNCHANGED <<regvars, route>>

\* A Drive upload reaches its retry loop (google_docs.py:304 / 892).
Upload(loop) ==
    /\ rx.state = "idle"
    /\ loop \in {"export_markdown", "upload_binary"}
    /\ rx' = [RxIdle EXCEPT !.state = "loop", !.loop = loop,
                            !.m = GDRIVE_MAX_RETRIES]
    /\ UNCHANGED <<regvars, route>>

\* One iteration of "for attempt in range(m)" in which the call succeeds:
\* _call_single_provider returns the response, the Drive loops break.
AttemptOk ==
    /\ rx.state = "loop"
    /\ rx' = [rx EXCEPT !.state = "returned",
                        !.log = Append(@, [ev |-> "call", attempt |-> rx.attempt,
                                           out |-> "ok", secs |-> 0]),
                        !.result = rx.attempt]
    /\ UNCHANGED <<regvars, route>>

\* One iteration in which the call raises e: last_error, then the sleep when
\* attempts remain; after the last attempt the error goes to the caller.
AttemptFails(e) ==
    /\ rx.state = "loop"
    /\ LET err == KeepError(rx.last_error, Error(e, rx.attempt))
           called == Append(rx.log, [ev |-> "call", attempt |-> rx.attempt,
                                     out |-> e, secs |-> 0])
       IN  rx' = IF AttemptsRemain(rx.attempt, rx.m)
                 THEN [rx EXCEPT !.last_error = err,
                                 !.log = Append(called,
                                    [ev |-> "sleep", attempt |-> rx.attempt, out |-> "",
                                     secs |-> Backoff(Base(rx.loop), rx.attempt)]),
                                 !.attempt = @ + 1]
                 ELSE [rx EXCEPT !.last_error = err, !.log = called,
                                 !.state = "raised",
                                 !.raised = Raised(rx.loop, err)]
    /\ UNCHANGED <<regvars, route>>

\* The caller has the outcome; the next external call can start.
CallDone ==
    /\ rx.state \in {"returned", "raised"}
    /\ rx' = RxIdle
    /\ UNCHANGED <<regvars, route>>

RetryNext ==
    \/ \E m \in 1..MaxRetriesArg, conf \in {"ok", "unknown_provider", "no_api_key"} :
          CallProvider(m, conf)
    \/ \E loop \in {"export_markdown", "upload_binary"} : Upload(loop)
    \/ AttemptOk
    \/ \E e \in Failures : AttemptFails(e)
    \/ CallDone


\* ======================================================================
\* Part III: call_llm, the provider chain
\* ======================================================================

\* Longest providers_chain ([cfg.AI_PROVIDER] + cfg.AI_FALLBACK_PROVIDERS) of
\* the model.
MaxChain == 4

\* The provider names a configuration can hold.
Providers == {"a", "b", "c"}

\* llm_client.py:52: call_llm leaves max_retries at its default.
DEFAULT_MAX_RETRIES == 3

\* No call_llm is under way.
RouteIdle ==
    [state |-> "idle", pinned |-> NULL, chain |-> <<>>, unique_chain |-> <<>>,
     i |-> 0, last_error |-> [kind |-> "None", attempt |-> -1, text |-> "",
                              prov |-> NULL],
     invoked |-> <<>>, outcomes |-> <<>>, result |-> NULL,
     raised |-> [kind |-> "None", attempt |-> -1, text |-> "", prov |-> NULL]]

\* The configurations of the chain: a primary and up to MaxChain - 1 fallbacks.
Chains == UNION {[1..n -> Providers] : n \in 1..MaxChain}

\* llm_client.py:145-150: the loop that builds unique_chain with the set seen.
RECURSIVE UniqueFrom(_, _, _)
UniqueFrom(chain, seen, unique_chain) ==
    IF chain = <<>>
    THEN unique_chain
    ELSE LET p == Head(chain)
         IN  IF p \notin seen
             THEN UniqueFrom(Tail(chain), seen \cup {p}, Append(unique_chain, p))
             ELSE UniqueFrom(Tail(chain), seen, unique_chain)

\* Variant: the chain is used as configured.
UniqueChain_AsConfigured(providers_chain) == providers_chain

UniqueChain(providers_chain) == UniqueFrom(providers_chain, {}, <<>>)

\* An error as call_llm sees it: the executor's error and the provider whose
\* run raised it.
NoRouteError == [kind |-> "None", attempt |-> -1, text |-> "", prov |-> NULL]

ProviderError(e, prov) ==
    [kind |-> e.kind, attempt |-> e.attempt, text |-> e.text, prov |-> prov]

\* Variant: after the last candidate its error is raised as it is.
AllFailed_Reraise(last_error) == last_error

\* llm_client.py:167: RuntimeError("... {last_error}"), a new error whose
\* message holds the text of last_error.
AllFailed(last_error) ==
    [kind |-> "RuntimeError", attempt |-> -1, text |-> last_error.kind,
     prov |-> last_error.prov]

\* Variant: the pinned provider's error is wrapped like the chain's.
PinnedRaised_Wrapped(e) == AllFailed(e)

\* llm_client.py:138-142: the pinned call stands in no try, so the error of
\* _call_single_provider leaves call_llm as it is.
PinnedRaised(e) == e

\* What call_llm records of a response of the executor for prov.
Response(prov, attempt) ==
    [kind |-> "ok", attempt |-> attempt, text |-> "", prov |-> prov]

\* call_llm(provider = pinned) with cfg.AI_PROVIDER + cfg.AI_FALLBACK_PROVIDERS
\* = providers_chain, up to the first call of the executor.
CallLlmState(pinned, providers_chain) ==
    [state |-> "next", pinned |-> pinned, chain |-> providers_chain,
     unique_chain |-> IF pinned /= NULL THEN <<>> ELSE UniqueChain(providers_chain),
     i |-> 1, last_error |-> NoRouteError, invoked |-> <<>>, outcomes |-> <<>>,
     result |-> NULL, raised |-> NoRouteError]

call_llm(pinned, providers_chain) ==
    /\ route.state = "idle"
    /\ rx.state = "idle"
    /\ route' = CallLlmState(pinned, providers_chain)
    /\ UNCHANGED <<regvars, rx>>

\* The provider the next executor run is for.
Candidate == IF route.pinned /= NULL THEN route.pinned ELSE route.unique_chain[route.i]

\* _call_single_provider is called for the candidate (llm_client.py:139 or
\* llm_client.py:157): its checks run with the configuration conf it finds.
Invoke(conf) ==
    /\ route.state = "next"
    /\ rx' = Called(DEFAULT_MAX_RETRIES, conf)
    /\ route' = [route EXCEPT !.state = "calling", !.invoked = Append(@, Candidate)]
    /\ UNCHANGED regvars

\* Whether the loop over unique_chain goes on after a failure at index i.
MoreCandidates(i, unique_chain) == i < Len(unique_chain)

\* The executor run returns to call_llm: with a pinned provider its outcome is
\* call_llm's outcome (llm_client.py:138-142); in the chain a response is
\* returned, an error is kept in last_error and the loop goes on to the next
\* candidate or, after the last one, raises (llm_client.py:153-167).
CandidateDone ==
    /\ route.state = "calling"
    /\ rx.state \in {"returned", "raised"}
    /\ rx' = RxIdle
    /\ LET ok == rx.state = "returned"
           e == ProviderError(rx.raised, Candidate)
           seen == [route EXCEPT !.outcomes =
                      Append(@, IF ok THEN Response(Candidate, rx.result) ELSE e)]
       IN  route' =
             IF ok
             THEN [seen EXCEPT !.state = "returned", !.result = Candidate]
             ELSE IF route.pinned /= NULL
             THEN [seen EXCEPT !.state = "raised", !.raised = PinnedRaised(e)]
             ELSE IF MoreCandidates(route.i, route.unique_chain)
             THEN [seen EXCEPT !.state = "next", !.i = @ + 1, !.last_error = e]
             ELSE [seen EXCEPT !.state = "raised", !.last_error = e,
                               !.raised = AllFailed(e)]
    /\ UNCHANGED regvars

\* The caller of call_llm has the outcome.
CallLlmDone ==
    /\ route.state \in {"returned", "raised"}
    /\ route' = RouteIdle
    /\ UNCHANGED <<regvars, rx>>

RouterNext ==
    \/ \E pinned \in Providers \cup {NULL}, chain \in Chains : call_llm(pinned, chain)
    \/ \E conf \in {"ok", "unknown_provider", "no_api_key"} : Invoke(conf)
    \/ AttemptOk
    \/ \E e \in Failures : AttemptFails(e)
    \/ CandidateDone
    \/ CallLlmDone

\* No status query has been answered yet.
NoResponse == [op |-> "none", id |-> 0, found |-> FALSE, body |-> <<>>]

\* ======================================================================
\* Part IV: _parse_json_response (ai_analysis/extractor.py)
\* ======================================================================

\* A response of the model is a sequence of lexical pieces: "F" is the
\* opening fence ```json, "T" a bare fence ```, "{" and "}" the braces, "m"
\* one well-formed member ("a": 1), "w" a white-space character and "x" a
\* run of other text.
Pieces == {"F", "T", "{", "}", "m", "w", "x"}

\* The longest response of the model, in pieces.
MaxResponse == 5

Responses == UNION {[1..n -> Pieces] : n \in 0..MaxResponse}

\* response[:500] (extractor.py:216).
SUMMARY_MAX == 500

\* Characters of a piece; a run of other text is a long one.
CharLen(piece) ==
    CASE piece = "F" -> 7
      [] piece = "T" -> 3
      [] piece = "m" -> 6
      [] piece = "x" -> 300
      [] OTHER       -> 1

RECURSIVE Chars(_)
Chars(seq) == IF seq = <<>> THEN 0 ELSE CharLen(Head(seq)) + Chars(Tail(seq))

\* response[:n]: the pieces that fit whole and the number of characters
\* taken from the piece that is cut.
RECURSIVE Slice(_, _)
Slice(seq, n) ==
    IF seq = <<>> \/ n = 0
    THEN [whole |-> <<>>, cut |-> 0]
    ELSE IF CharLen(Head(seq)) > n
         THEN [whole |-> <<>>, cut |-> n]
         ELSE LET rest == Slice(Tail(seq), n - CharLen(Head(seq)))
              IN  [whole |-> <<Head(seq)>> \o rest.whole, cut |-> rest.cut]

\* The pieces of a text that are not white space.
RECURSIVE Squeeze(_)
Squeeze(seq) ==
    IF seq = <<>> THEN <<>>
    ELSE IF Head(seq) = "w" THEN Squeeze(Tail(seq))
         ELSE <<Head(seq)>> \o Squeeze(Tail(seq))

\* The JSON texts of the model: the empty object and the object of one
\* member, with white space anywhere between the pieces.
JsonTexts == {<<"{", "}">>, <<"{", "m", "}">>}

\* json.loads: the value, or JSONDecodeError.
Decodes(seq) == Squeeze(seq) \in JsonTexts

\* str.index / str.rindex: the position of the first (last) piece of a set,
\* 0 standing for ValueError.
IndexOf(seq, set, from) ==
    IF \E k \in from..Len(seq) : seq[k] \in set
    THEN CHOOSE k \in from..Len(seq) :
             seq[k] \in set /\ \A j \in from..(k - 1) : seq[j] \notin set
    ELSE 0

RIndexOf(seq, set) ==
    IF \E k \in 1..Len(seq) : seq[k] \in set
    THEN CHOOSE k \in 1..Len(seq) :
             seq[k] \in set /\ \A j \in (k + 1)..Len(seq) : seq[j] \notin set
    ELSE 0

Parsed(seq) ==
    [kind |-> "parsed", value |-> Squeeze(seq),
     summary |-> [whole |-> <<>>, cut |-> 0], parse_error |-> FALSE]

ParseRaised ==
    [kind |-> "raised", value |-> <<>>,
     summary |-> [whole |-> <<>>, cut |-> 0], parse_error |-> FALSE]

\* extractor.py:213-220: the original text, key_points and keywords empty.
Fallback(response) ==
    [kind |-> "fallback", value |-> <<>>,
     summary |-> Slice(response, SUMMARY_MAX), parse_error |-> TRUE]

\* extractor.py:204-211: the span from the first "{" to the last "}".
BraceSpan(response) ==
    LET first == IndexOf(response, {"{"}, 1)
        close == RIndexOf(response, {"}"})
    IN  IF first = 0 \/ close = 0 THEN Fallback(response)
        ELSE IF Decodes(SubSeq(response, first, close))
             THEN Parsed(SubSeq(response, first, close))
             ELSE Fallback(response)

\* extractor.py:196-202: the block between ```json and the next ```, which
\* is the next fence of either kind; the search for it is outside the try.
FencedBlock(response) ==
    LET fence == IndexOf(response, {"F"}, 1)
        close == IndexOf(response, {"F", "T"}, fence + 1)
    IN  IF fence = 0 THEN BraceSpan(response)
        ELSE IF close = 0 THEN ParseRaised
             ELSE IF Decodes(SubSeq(response, fence + 1, close - 1))
                  THEN Parsed(SubSeq(response, fence + 1, close - 1))
                  ELSE BraceSpan(response)

\* extractor.py:188-220.
parse_json_response(response) ==
    IF Decodes(response) THEN Parsed(response) ELSE FencedBlock(response)

\* No _parse_json_response call has been made yet.
NoParse ==
    [kind |-> "none", value |-> <<>>,
     summary |-> [whole |-> <<>>, cut |-> 0], parse_error |-> FALSE]

PjIdle == [state |-> "idle", response |-> <<>>, result |-> NoParse]

\* Everything but the parser's call.
parseframe ==
    <<now, nobj, reg, tasks, runner, pc, wpc, is_video, sem, batch, stopped,
      nterm, rx, route, res, files, onloop, cb, reply>>

\* extract_knowledge hands the text of the model to the parser
\* (extractor.py:160).
ParseCall(response) ==
    /\ pj.state = "idle"
    /\ pj' = [state |-> "called", response |-> response, result |-> NoParse]
    /\ UNCHANGED parseframe

\* The parser returns or raises.
ParseReturn ==
    /\ pj.state = "called"
    /\ pj' = [pj EXCEPT !.state = "done",
                        !.result = parse_json_response(pj.response)]
    /\ UNCHANGED parseframe

\* The caller has taken the result (or the exception).
ParseTaken ==
    /\ pj.state = "done"
    /\ pj' = PjIdle
    /\ UNCHANGED parseframe

ParseNext ==
    \/ \E response \in Responses : ParseCall(response)
    \/ ParseReturn
    \/ ParseTaken

Init ==
    /\ RegInit
    /\ rx = RxIdle
    /\ route = RouteIdle
    /\ cb = [o \in Objs |-> NULL]
    /\ reply = NoResponse
    /\ pj = PjIdle

Next ==
    \/ Submit
    \/ Loop
    \/ Worker
    \/ Shutdown

Spec == Init /\ [][Next]_vars

RetrySpec == Init /\ [][RetryNext]_vars

RouterSpec == Init /\ [][RouterNext]_vars

ParseSpec == Init /\ [][ParseNext]_vars

\* ---------------------------------------------------- eviction sweeps

\* Hours at which the records of a registry were created, and hours at which
\* a sweep looks at it: at 25 a record of hour 0 has expired and one of hour 1,
\* aged exactly TASK_EXPIRE_HOURS, has not.
CreatedAts == {0, 1, 2}

Nows == {2, 25, 26, 27}

\* The result of a run that went through every stage, and of one that ended at
\* identification.
FinishedRun ==
    [source_type |-> "document", text |-> TRUE, analysis |-> FALSE,
     errors |-> <<>>, stages |-> StageOrder,
     calls |-> <<"identify", "extract", "ai", "output">>]

RejectedRun ==
    [NoResult EXCEPT !.source_type = "unsupported", !.stages = <<"identify">>,
                     !.calls = <<"identify">>]

\* The record of an upload created at hour c that is now in status st.
Record(st, c) ==
    LET t == [NewTask("queued", "content", FALSE) EXCEPT !.created_at = c]
    IN  CASE st = "queued" -> t
          [] st = "processing" ->
                [t EXCEPT !.status = "processing", !.progress = 5,
                          !.step_label = "preparing"]
          [] st = "completed" -> Completed(t)
          [] st = "failed" -> Failed([t EXCEPT !.progress = 5], "unsupported", "keep")

\* A registry of n uploads, none swept yet, some waiting for their run, at
\* most MAX_CONCURRENT_PIPELINES in their run and the others ended: records
\* are created in the order of their ids, so created_at does not decrease with
\* the id.
EvictInit ==
    \E n \in 0..MaxObjs, nw \in Nows :
    \E st \in [1..n -> {"queued", "processing", "completed", "failed"}],
       c \in [1..n -> CreatedAts] :
        /\ \A i, j \in 1..n : i < j => c[i] <= c[j]
        /\ Cardinality({i \in 1..n : st[i] = "processing"}) <= MAX_CONCURRENT_PIPELINES
        /\ now = nw
        /\ nobj = n
        /\ reg = 1..n
        /\ tasks = [o \in Objs |-> IF o <= n THEN Record(st[o], c[o]) ELSE Blank]
        /\ runner = [o \in Objs |-> IF o <= n THEN "file" ELSE "none"]
        /\ pc = [o \in Objs |->
                   IF o > n THEN "none"
                   ELSE IF st[o] = "queued" THEN "created"
                   ELSE IF st[o] = "processing" THEN "await_process"
                   ELSE "returned"]
        /\ wpc = [o \in Objs |->
                    IF o <= n /\ st[o] = "processing" THEN "identify0" ELSE "idle"]
        /\ is_video = [o \in Objs |-> FALSE]
        /\ sem = MAX_CONCURRENT_PIPELINES
                   - Cardinality({i \in 1..n : st[i] = "processing"})
        /\ batch = NoBatch
        /\ stopped = FALSE
        /\ nterm = [o \in Objs |-> IF o <= n /\ st[o] \in Terminal THEN 1 ELSE 0]
        /\ res = [o \in Objs |->
                    IF o > n \/ st[o] \in {"queued", "processing"} THEN NoResult
                    ELSE IF st[o] = "completed" THEN FinishedRun ELSE RejectedRun]
        /\ files = [o \in Objs |->
                      IF o > n THEN NoFile
                      ELSE IF st[o] \in Terminal THEN Cleaned(InputFile("file"))
                      ELSE InputFile("file")]
        /\ onloop = {}
        /\ rx = RxIdle
        /\ route = RouteIdle
        /\ cb = [o \in Objs |-> NULL]
        /\ reply = NoResponse
        /\ pj = PjIdle

\* The callers of _cleanup_old_tasks on such a registry.
EvictNext ==
    \/ periodic_cleanup
    \/ process_file_too_large
    \/ \E op \in Options : process_file(op.intent, op.auto_export)

EvictSpec == EvictInit /\ [][EvictNext]_vars

\* ------------------------------------------------------------ task ids

\* task_id = str(uuid.uuid4())[:8]; _tasks[task_id] = {...};
\* asyncio.create_task(run(task_id, ...)) on a registry r: the first eight hex
\* digits of a random UUID, drawn here from the ids of the model, whether or
\* not a record is stored under them.  Create is the case of a draw that hits
\* no id given out before.
CreateAs(r, o, which, label, intent, auto_export) ==
    /\ nobj <= MaxObjs
    /\ nobj' = nobj + 1
    /\ reg' = r \cup {o}
    /\ tasks' = [tasks EXCEPT ![o] = NewTask(label, intent, auto_export)]
    /\ runner' = [runner EXCEPT ![o] = IF which = "url" THEN "url" ELSE "file"]
    /\ pc' = [pc EXCEPT ![o] = "created"]
    /\ files' = [files EXCEPT ![o] = InputFile(which)]
    /\ UNCHANGED <<now, wpc, is_video, sem, batch, stopped, nterm, rx, route, res,
                   onloop, qvars>>

\* POST /api/process and POST /api/process/url with the id they draw.
process_file_as(o, intent, auto_export) ==
    /\ ~stopped
    /\ CreateAs(Cleanup(reg), o, "file", "queued", intent, auto_export)

process_url_as(o, intent, auto_export) ==
    /\ ~stopped
    /\ CreateAs(reg, o, "url", "queued_url", intent, auto_export)

IdNext ==
    \/ \E o \in Objs, op \in Options : process_file_as(o, op.intent, op.auto_export)
    \/ \E o \in Objs, op \in Options : process_url_as(o, op.intent, op.auto_export)

IdSpec == EvictInit /\ [][IdNext]_vars

\* ------------------------------------------------------ status queries

\* GET /api/tasks takes limit = Query(20, ge=1, le=100).
LIMIT_MIN == 1

LIMIT_MAX == 100

Limits == {LIMIT_MIN, 2, LIMIT_MAX}

\* The ids a client asks for: those of the model's records and one, 0, that
\* was never given out.
Ids == 0..MaxObjs

\* _task_to_api_response: a copy of the record (the truncation of the result's
\* long texts leaves every other field as it is).
ApiResponse(o) == [id |-> o, task |-> tasks[o]]

\* sorted(_tasks.values(), key=created_at, reverse=True): the sort is stable
\* and keeps the dict's insertion order among equal keys, also when reversed.
Before(p, o) ==
    \/ tasks[p].created_at > tasks[o].created_at
    \/ (tasks[p].created_at = tasks[o].created_at /\ p < o)

RECURSIVE Sorted(_)
Sorted(r) ==
    IF r = {} THEN <<>>
    ELSE LET first == CHOOSE o \in r : \A p \in r \ {o} : Before(o, p)
         IN  <<first>> \o Sorted(r \ {first})

\* Variant: the whole list is returned whatever the limit.
Cut_Nothing(seq, limit) == seq

\* tasks[:limit].
Cut(seq, limit) == SubSeq(seq, 1, Min(limit, Len(seq)))

\* GET /api/tasks/{task_id} (api.py:740-744): 404 or the record.
GetReply(id) ==
    IF id \notin reg
    THEN [op |-> "get", id |-> id, found |-> FALSE, body |-> <<>>]
    ELSE [op |-> "get", id |-> id, found |-> TRUE, body |-> <<ApiResponse(id)>>]

\* GET /api/tasks (api.py:748-751): the first limit records of the sorted list.
ListReply(limit) ==
    LET listed == Cut(Sorted(reg), limit)
    IN  [op |-> "list", id |-> limit, found |-> TRUE,
         body |-> [k \in 1..Len(listed) |-> ApiResponse(listed[k])]]

get_task(id) ==
    /\ ~stopped
    /\ reply' = GetReply(id)
    /\ UNCHANGED <<now, nobj, reg, tasks, runner, pc, wpc, is_video, sem, batch,
                   stopped, nterm, rx, route, res, files, onloop, cb, pj>>

list_tasks(limit) ==
    /\ ~stopped
    /\ reply' = ListReply(limit)
    /\ UNCHANGED <<now, nobj, reg, tasks, runner, pc, wpc, is_video, sem, batch,
                   stopped, nterm, rx, route, res, files, onloop, cb, pj>>

\* The _report_progress call a worker at position w makes next.
NextReport(o) ==
    LET w == wpc[o]
    IN  CASE w = "identify0" -> [step |-> "identify", sub |-> 0]
          [] w = "identify1" -> [step |-> "identify", sub |-> 1]
          [] w = "extract0" -> [step |-> "extract", sub |-> 0]
          [] w = "extract1" -> [step |-> "extract", sub |-> 1]
          [] w = "style0" ->
                [step |-> "style", sub |-> IF tasks[o].intent = "style" THEN 0 ELSE 1]
          [] w = "style1" -> [step |-> "style", sub |-> 1]
          [] w = "ai0" -> [step |-> "ai", sub |-> 0]
          [] w = "ai1" -> [step |-> "ai", sub |-> 1]
          [] w = "output0" -> [step |-> "output", sub |-> 0]
          [] w = "output1" -> [step |-> "output", sub |-> 1]
          [] w = "visual" -> [step |-> "visual", sub |-> 1]
          [] w = "done" -> [step |-> "done", sub |-> 1]

Reporting ==
    {"identify0", "identify1", "extract0", "extract1", "style0", "style1",
     "ai0", "ai1", "output0", "output1", "visual", "done"}

\* The first statement of _on_progress, task["progress"] = pct (api.py:871 /
\* api.py:617), on the worker thread; the second one, task["step_label"] =
\* label, comes with the worker's next step.  The two are separate bytecodes
\* and no lock is held, so the event loop thread can run between them.
ProgressStore(o) ==
    /\ wpc[o] \in Reporting
    /\ cb[o] /= wpc[o]
    /\ LET rp == NextReport(o)
           done == OnProgress(o, ReportPct(rp.step, rp.sub),
                              PROGRESS_STEPS[rp.step].label)
       IN  tasks' = [tasks EXCEPT ![o].progress = done[o].progress]
    /\ cb' = [cb EXCEPT ![o] = wpc[o]]
    /\ UNCHANGED <<now, nobj, reg, runner, pc, wpc, is_video, sem, batch, stopped,
                   nterm, rx, route, res, files, onloop, reply, pj>>

\* The worker's step that starts with the _on_progress call under way.
LabelStore(o) ==
    /\ cb[o] = wpc[o]
    /\ \/ Identify(o, "document")
       \/ IdentifyDone(o)
       \/ Extract(o)
       \/ ExtractDone(o, "text")
       \/ Style(o)
       \/ StyleDone(o, TRUE)
       \/ Ai(o)
       \/ AiDone(o, TRUE)
       \/ Output(o)
       \/ OutputDone(o, TRUE)
       \/ Visual(o)
       \/ Done(o)

\* Status queries on a registry some of whose runs are under way.
QueryNext ==
    \/ \E id \in Ids : get_task(id)
    \/ \E limit \in Limits : list_tasks(limit)
    \/ \E o \in Objs : ProgressStore(o)
    \/ \E o \in Objs : LabelStore(o)
    \/ \E o \in Objs : ProcessReturn(o)
    \/ periodic_cleanup

\* The registries of EvictInit at the hour at which none of their records
\* has expired.
QueryInit == EvictInit /\ now = 2

QuerySpec == QueryInit /\ [][QueryNext]_vars

\* One run of the pipeline in a server that keeps running: the event loop
\* runs the coroutine, the export ends, and every stage function returns or
\* raises.
PipeSpec ==
    /\ Init
    /\ [][PipeNext]_vars
    /\ WF_vars(PipeNext)

\* The server keeps running: the event loop runs every coroutine that can go
\* on and fires every timer that is due.  Nothing makes a blocking call on a
\* worker thread return, so no fairness is stated for the worker's steps nor
\* for the steps that wait for probe, download, fetch, browser or export.
LiveNext == Submit \/ Loop \/ Worker

LiveSpec ==
    /\ Init
    /\ [][LiveNext]_vars
    /\ \A o \in Objs :
          /\ WF_vars(RunStart(o))
          /\ WF_vars(Admit(o))
          /\ WF_vars(Timeout(o))
          /\ WF_vars(ProcessReturn(o))

\* ======================================================================
\* Properties
\* ======================================================================

Created == 1..nobj

Processing == {o \in Objs : tasks[o].status = "processing"}

\* C1: the number of tasks in "processing" never exceeds
\* MAX_CONCURRENT_PIPELINES, whatever entrypoints the tasks came through, and
\* a task that has not been admitted yet is "queued".
C1_ConcurrencyBound ==
    /\ Cardinality(Processing) <= MAX_CONCURRENT_PIPELINES
    /\ \A o \in Created : pc[o] \in {"created", "waiting"} => tasks[o].status = "queued"

\* C1 witness: the ceiling is reached and a further task waits in "queued".
C1_Witness ==
    /\ Cardinality(Processing) = MAX_CONCURRENT_PIPELINES
    /\ \E o \in Created : pc[o] = "waiting" /\ tasks[o].status = "queued"

\* C2: no write to a task's progress ever lowers it.
C2_MonotonicProgress ==
    [][\A o \in Objs : tasks'[o].progress >= tasks[o].progress]_vars

\* C2 witness: a URL task has gone through the remapped values up to 100, and
\* a file task has been driven on by its worker after the deadline.
C2_Witness ==
    /\ \E o \in Created : /\ runner[o] = "url"
                          /\ tasks[o].status = "completed"
                          /\ tasks[o].progress = 100
    /\ \E o \in Created : /\ runner[o] = "file"
                          /\ tasks[o].error = "timeout"
                          /\ tasks[o].progress = 95

\* C3: completed means a result and no error, failed means an error and no
\* result, and a task that is not terminal has neither.
C3_TerminalExclusive ==
    \A o \in Created :
        /\ tasks[o].status = "completed" =>
              tasks[o].result /= NULL /\ tasks[o].error = NULL
        /\ tasks[o].status = "failed" =>
              tasks[o].error /= NULL /\ tasks[o].result = NULL
        /\ tasks[o].status \in {"queued", "processing"} =>
              tasks[o].result = NULL /\ tasks[o].error = NULL

\* C3 witness: one task has completed and another has failed.
C3_Witness ==
    /\ \E o \in Created : tasks[o].status = "completed"
    /\ \E o \in Created : tasks[o].status = "failed"

\* C4: the status only moves queued -> processing -> completed or failed, and
\* a terminal status is written exactly once.
C4_StatusTransitions ==
    [][\A o \in Objs :
          /\ tasks'[o].status /= tasks[o].status =>
                <<tasks[o].status, tasks'[o].status>> \in
                    {<<"none", "queued">>, <<"queued", "processing">>,
                     <<"processing", "completed">>, <<"processing", "failed">>}
          /\ nterm'[o] = IF tasks'[o].status \in Terminal THEN 1 ELSE 0]_vars

\* C4 witness: a task has failed on the deadline and its worker has since
\* written to the record.
C4_Witness ==
    \E o \in Created : /\ tasks[o].status = "failed"
                       /\ tasks[o].error = "timeout"
                       /\ tasks[o].step_label = "extract"
                       /\ nterm[o] = 1

\* C5: once a task is terminal, its status, progress, step label, result and
\* error never change again.
C5_TerminalImmutable ==
    [][\A o \in Objs :
          tasks[o].status \in Terminal =>
              /\ tasks'[o].status = tasks[o].status
              /\ tasks'[o].progress = tasks[o].progress
              /\ tasks'[o].step_label = tasks[o].step_label
              /\ tasks'[o].result = tasks[o].result
              /\ tasks'[o].error = tasks[o].error]_vars

\* C6: a run holds a slot exactly from its admission to its way out, so the
\* slots taken are the runs in between, a task is "processing" only while its
\* run holds a slot, and all slots are free once every run has ended.
C6_SlotAccounting ==
    /\ sem \in 0..MAX_CONCURRENT_PIPELINES
    /\ MAX_CONCURRENT_PIPELINES - sem = Cardinality({o \in Objs : pc[o] \in Holding})
    /\ \A o \in Created :
          tasks[o].status = "processing" => pc[o] \in Holding \cup {"cancelled"}
    /\ (\A o \in Created : pc[o] \in {"returned", "cancelled"}) =>
          sem = MAX_CONCURRENT_PIPELINES

\* C6 witness: every run has ended, one on the deadline and one with an
\* exception, and all slots are free.
C6_Witness ==
    /\ nobj = MaxTasks
    /\ \A o \in Created : pc[o] = "returned"
    /\ \E o \in Created : tasks[o].error = "timeout"
    /\ \E o \in Created : tasks[o].error = "exception"
    /\ sem = MAX_CONCURRENT_PIPELINES

\* C7: every admitted task becomes terminal, whether or not its blocking
\* steps ever return.
C7_EveryRunIsBounded ==
    \A o \in Objs :
        (tasks[o].status = "processing") ~> (tasks[o].status \in Terminal)

\* The part of C7 the code guarantees: a run of _run_pipeline ends, because
\* its only blocking step is under asyncio.wait_for.
FileRunIsBounded ==
    \A o \in Objs :
        (tasks[o].status = "processing" /\ runner[o] = "file")
            ~> (tasks[o].status \in Terminal /\ pc[o] /= "await_process")

\* ------------------------------------------------------- the retry loops

\* The attempts of the call made so far.
Calls == {k \in 1..Len(rx.log) : rx.log[k].ev = "call"}

\* The waits made so far.
Sleeps == {k \in 1..Len(rx.log) : rx.log[k].ev = "sleep"}

\* The error of the last attempt made.
LastAttemptError ==
    Error(rx.log[Len(rx.log)].out, rx.log[Len(rx.log)].attempt)

Exhausted == rx.state = "raised" /\ rx.conf = "ok"

\* C8: a loop of m attempts with base b calls at most m times, attempts are
\* numbered from 0, a wait of b*2^i follows the failed attempt i exactly when
\* i < m-1, nothing follows a success, and the first success is what returns.
C8_BackoffSchedule ==
    LET log == rx.log
        n == Len(log)
        b == IF rx.loop = "llm" THEN 1 ELSE GDRIVE_RETRY_DELAY
    IN  /\ Cardinality(Calls) <= rx.m
        /\ \A k \in 1..n :
              IF k % 2 = 1
              THEN /\ log[k].ev = "call"
                   /\ log[k].attempt = (k - 1) \div 2
                   /\ log[k].out = "ok" => /\ k = n
                                           /\ rx.state = "returned"
                                           /\ rx.result = log[k].attempt
              ELSE /\ log[k].ev = "sleep"
                   /\ log[k - 1].out /= "ok"
                   /\ log[k].attempt = log[k - 1].attempt
                   /\ log[k].attempt < rx.m - 1
                   /\ log[k].secs = b * 2^(log[k].attempt)
        /\ rx.state = "loop" => n = 2 * rx.attempt
        /\ rx.state = "returned" => n >= 1 /\ log[n].out = "ok"
        /\ Exhausted => /\ n = 2 * rx.m - 1
                        /\ Cardinality(Sleeps) = rx.m - 1

\* C8 witness: the LLM loop with m = 3 has failed twice, waited 1 then 2
\* seconds, and returned the third attempt's response.
C8_Witness ==
    /\ rx.state = "returned"
    /\ rx.loop = "llm"
    /\ rx.m = 3
    /\ Len(rx.log) = 5
    /\ rx.log[2].secs = 1
    /\ rx.log[4].secs = 2
    /\ rx.result = 2

\* C9 as stated: when every attempt has failed, each of the three loops
\* delivers the last attempt's error itself.
C9_LastErrorUnchanged ==
    Exhausted => rx.raised = LastAttemptError

\* C9: when every attempt has failed, _call_single_provider raises the last
\* attempt's error itself, and the Drive loops raise a new RuntimeError whose
\* message holds the text of the last attempt's error.
C9_LastErrorDelivered ==
    Exhausted =>
        IF rx.loop = "llm"
        THEN rx.raised = LastAttemptError
        ELSE /\ rx.raised.kind = "RuntimeError"
             /\ rx.raised.text = LastAttemptError.kind
             /\ rx.raised.attempt = rx.m - 1

\* C9 witness: the LLM loop has failed three times, the first time otherwise
\* than the last, and the caller has the last error.
C9_Witness ==
    /\ Exhausted
    /\ rx.loop = "llm"
    /\ rx.m = 3
    /\ rx.log[1].out = "network"
    /\ rx.log[5].out = "auth"
    /\ rx.raised = Error("auth", 2)

Firsts == {j \in 1..Len(route.chain) :
              \A j2 \in 1..(j - 1) : route.chain[j2] /= route.chain[j]}

\* The k-th name of the chain without its repetitions.
NthName(k) ==
    route.chain[CHOOSE j \in Firsts : Cardinality({j2 \in Firsts : j2 < j}) = k - 1]

Unpinned == route.state /= "idle" /\ route.pinned = NULL

\* C11: without a pinned provider the executor runs for the names of
\* [primary] + fallbacks in their order of first occurrence, once each, the
\* next one only after the one before has failed, and none after a response,
\* which is what call_llm returns.
C11_FallbackOrder ==
    Unpinned =>
        LET n == Len(route.invoked)
            d == Len(route.outcomes)
        IN  /\ n <= Cardinality(Firsts)
            /\ \A k \in 1..n : route.invoked[k] = NthName(k)
            /\ \A k, l \in 1..n : k /= l => route.invoked[k] /= route.invoked[l]
            /\ d = IF route.state = "calling" THEN n - 1 ELSE n
            /\ \A k \in 1..d : route.outcomes[k].prov = route.invoked[k]
            /\ \A k \in 1..d : k < n => route.outcomes[k].kind /= "ok"
            /\ \A k \in 1..d : route.outcomes[k].kind = "ok" =>
                  /\ k = n
                  /\ route.state = "returned"
                  /\ route.result = route.invoked[k]
            /\ route.state = "returned" => d >= 1 /\ route.outcomes[d].kind = "ok"
            /\ route.state = "next" => n < Cardinality(Firsts)

\* C11 witness: providers [a, b, a, c], a has failed and b has answered:
\* a then b were invoked, c never.
C11_Witness ==
    /\ Unpinned
    /\ route.chain = <<"a", "b", "a", "c">>
    /\ route.state = "returned"
    /\ route.invoked = <<"a", "b">>
    /\ route.result = "b"

\* C12: when every candidate has failed, call_llm raises one new error that
\* holds the text of the last candidate's error, and returns no result.
C12_AllFailed ==
    (/\ Unpinned
     /\ Len(route.outcomes) = Cardinality(Firsts)
     /\ \A k \in 1..Len(route.outcomes) : route.outcomes[k].kind /= "ok") =>
        LET last == route.outcomes[Len(route.outcomes)]
        IN  /\ route.state = "raised"
            /\ route.result = NULL
            /\ route.raised.kind = "RuntimeError"
            /\ route.raised.text = last.kind
            /\ route.raised.prov = route.invoked[Len(route.invoked)]
            /\ route.raised.prov = NthName(Cardinality(Firsts))

\* C12 witness: providers [a, b], a has failed with an authentication error
\* and b with a network error; the error raised holds b's.
C12_Witness ==
    /\ Unpinned
    /\ route.chain = <<"a", "b">>
    /\ route.state = "raised"
    /\ route.outcomes[1].kind = "auth"
    /\ route.outcomes[2].kind = "network"
    /\ route.raised.text = "network"
    /\ route.raised.prov = "b"

\* C13: with a pinned provider the executor runs once, for that provider and
\* with at most max_retries attempts, and a failure leaves call_llm as the
\* provider's own error.
C13_PinnedOnly ==
    route.state /= "idle" /\ route.pinned /= NULL =>
        /\ Len(route.invoked) <= 1
        /\ \A k \in 1..Len(route.invoked) : route.invoked[k] = route.pinned
        /\ route.state = "calling" => Cardinality(Calls) <= DEFAULT_MAX_RETRIES
        /\ route.state = "next" => route.invoked = <<>>
        /\ route.state = "returned" => route.result = route.pinned
        /\ route.state = "raised" =>
              /\ route.raised = route.outcomes[1]
              /\ route.raised.prov = route.pinned
              /\ route.raised.kind \in Failures \cup {"ValueError"}

\* C13 witness: c is pinned while the configuration names a and b; c's three
\* attempts have failed and call_llm has raised c's last error.
C13_Witness ==
    /\ route.pinned = "c"
    /\ route.chain = <<"a", "b">>
    /\ route.state = "raised"
    /\ route.invoked = <<"c">>
    /\ route.raised.kind = "timeout"
    /\ route.raised.attempt = DEFAULT_MAX_RETRIES - 1

\* ------------------------------------------------- stages of one run

Rank(step) == CHOOSE k \in 1..Len(StageOrder) : StageOrder[k] = step

IsPrefix(s, t) ==
    /\ Len(s) <= Len(t)
    /\ \A k \in 1..Len(s) : s[k] = t[k]

\* The stage a worker at position w is in, or has last left.
StageAt(w) ==
    CASE w \in {"identify1"} -> "identify"
      [] w \in {"extract0"} -> "identify"
      [] w \in {"extract1", "style0"} -> "extract"
      [] w \in {"style1", "ai0"} -> "style"
      [] w \in {"ai1", "output0"} -> "ai"
      [] w \in {"output1", "visual"} -> "output"
      [] w \in {"done"} -> "visual"
      [] OTHER -> NULL

\* C14: the stages of a run are entered in the declared order, each after the
\* one before it has returned or been skipped, and each stage function is
\* called at most once, in that order, whether or not it fails.
C14_StageOrder ==
    \A o \in Objs :
        LET run == res[o]
        IN  /\ IsPrefix(run.stages, StageOrder)
            /\ \A i, j \in 1..Len(run.calls) :
                  i < j => Rank(run.calls[i]) < Rank(run.calls[j])
            /\ \A i \in 1..Len(run.calls) :
                  \E k \in 1..Len(run.stages) : run.stages[k] = run.calls[i]
            /\ StageAt(wpc[o]) /= NULL =>
                  /\ run.stages /= <<>>
                  /\ run.stages[Len(run.stages)] = StageAt(wpc[o])
            /\ wpc[o] = "identify0" => run.stages = <<>>

\* C14 witness: a run whose extraction and whose AI analysis both raised has
\* gone through all seven stages, calling each of the two once.
C14_Witness ==
    \E o \in Objs :
        /\ res[o].stages = StageOrder
        /\ res[o].errors = <<"extract", "ai">>
        /\ res[o].calls = <<"identify", "extract", "style", "ai", "output">>

Has(seq, x) == \E k \in 1..Len(seq) : seq[k] = x

\* The style analysis of the run of o has raised.
StyleFailed(o) == Has(res[o].errors, "style")

\* C15: when the video or image style analysis raises, the error is appended
\* to the result's errors, the stages after it all run (the AI stage calling
\* its function when there is an extracted text), and the task ends completed
\* with its result set and its error null.
C15_AnalysisNonFatal ==
    /\ [][\A o \in Objs :
            /\ wpc[o] = "style1" /\ wpc'[o] /= "style1"
            /\ Analysed(res[o].source_type) /\ ~res'[o].analysis
            => res'[o].errors = Append(res[o].errors, "style")]_vars
    /\ [](\A o \in Objs :
            StyleFailed(o) /\ tasks[o].status \in Terminal =>
                /\ tasks[o].status = "completed"
                /\ tasks[o].result = "result"
                /\ tasks[o].error = NULL
                /\ res[o].stages = StageOrder
                /\ Has(res[o].calls, "output")
                /\ Has(res[o].calls, "ai") <=> res[o].text)
    /\ \A o \in Objs : StyleFailed(o) ~> (tasks[o].status = "completed")

\* C15 witness: an uploaded image without text whose style analysis raised
\* has been completed.
C15_Witness ==
    \E o \in Objs :
        /\ res[o].source_type = "image"
        /\ res[o].errors = <<"style">>
        /\ ~res[o].text
        /\ res[o].stages = StageOrder
        /\ tasks[o].status = "completed"
        /\ tasks[o].error = NULL

\* C16: a failure of the identification or of the text extraction ends the
\* run: no later stage is entered and the task does not end completed.
C16_FatalStagesAbort ==
    \A o \in Objs :
        /\ res[o].source_type = "raised" =>
              /\ res[o].stages = <<"identify">>
              /\ tasks[o].status /= "completed"
        /\ Has(res[o].errors, "extract") =>
              /\ res[o].stages = <<"identify", "extract">>
              /\ tasks[o].status /= "completed"

Succeeded(o) ==
    /\ res[o].source_type \in SourceTypes
    /\ res[o].stages = StageOrder
    /\ res[o].errors = <<>>

\* C18: a run on a supported input whose stages all succeed ends, and ends
\* completed; and a completed task has progress 100.
C18_SuccessCompletes ==
    /\ \A o \in Objs : Succeeded(o) ~> (tasks[o].status = "completed")
    /\ [](\A o \in Objs :
            Succeeded(o) /\ tasks[o].status \in Terminal =>
                tasks[o].status = "completed")
    /\ [](\A o \in Objs :
            tasks[o].status = "completed" => tasks[o].progress = 100)

\* C18 witness: a document fetched from a URL has gone through every stage
\* and is completed with progress 100.
C18_Witness ==
    \E o \in Objs :
        /\ Succeeded(o)
        /\ runner[o] = "url"
        /\ tasks[o].status = "completed"
        /\ tasks[o].progress = 100
        /\ tasks[o].error = NULL

\* ------------------------------------------------------------ eviction

\* C19: once a sweep of the registry has completed, no terminal record older
\* than TASK_EXPIRE_HOURS is left in it, whatever the size of the registry.
C19_NoExpiredAfterSweep == \A o \in Cleanup(reg) : ~IsExpired(o)

Max(a, b) == IF a >= b THEN a ELSE b

\* What the sweep of registry r removes beyond the expired records.
ForceRemovedFrom(r) == (r \ {o \in r : IsExpired(o)}) \ Cleanup(r)

\* C20: the sweep of a registry of more than MAX_TASKS records leaves at most
\* max(MAX_TASKS, number of non-terminal records), removes only terminal
\* records, and every unexpired terminal record it leaves is at least as
\* recent as every record it removed by force.
C20_ForcedRemoval ==
    Cardinality(reg) > MAX_TASKS =>
        LET after == Cleanup(reg)
            live == {o \in reg : tasks[o].status \notin Terminal}
        IN  /\ after \subseteq reg
            /\ live \subseteq after
            /\ Cardinality(after) <= Max(MAX_TASKS, Cardinality(live))
            /\ Cardinality(after) = Cardinality(reg) =>
                  \A o \in reg : tasks[o].status \notin Terminal
            /\ \A o \in after, p \in ForceRemovedFrom(reg) :
                  tasks[o].status \in Terminal =>
                      tasks[o].created_at >= tasks[p].created_at

\* C20 witness: of three terminal records created at hours 0, 1 and 2, none
\* expired, a sweep has left the most recent MAX_TASKS.
C20_Witness ==
    /\ nobj = 3
    /\ \A o \in 1..3 : tasks[o].status \in Terminal /\ ~IsExpired(o)
    /\ \A o \in 1..3 : tasks[o].created_at = o - 1
    /\ reg = {o \in 1..3 : o > 3 - MAX_TASKS}

\* C21: a sweep removes no record that is queued or processing, however old
\* it is and however many records the registry holds, and changes no field of
\* a record that was there before it.
C21_NonTerminalKept ==
    /\ [](\A o \in reg : tasks[o].status \notin Terminal => o \in Cleanup(reg))
    /\ [][/\ \A o \in reg : tasks[o].status \notin Terminal => o \in reg'
          /\ \A o \in reg : tasks'[o] = tasks[o]]_vars

\* C21 witness: a sweep has removed a terminal record and left two records
\* older than TASK_EXPIRE_HOURS, one queued and one processing, in a registry
\* that still exceeds MAX_TASKS.
C21_Witness ==
    /\ \E o \in 1..nobj : o \notin reg /\ tasks[o].status \in Terminal
    /\ \E o, p \in reg :
          /\ tasks[o].status = "queued"
          /\ tasks[p].status = "processing"
          /\ now - tasks[o].created_at > TASK_EXPIRE_HOURS
          /\ now - tasks[p].created_at > TASK_EXPIRE_HOURS
    /\ Cardinality(reg) > MAX_TASKS

\* ------------------------------------------------------- status queries

\* The (progress, step_label) pairs one _on_progress call of the run of o
\* writes.
ReportedPairs(o) ==
    {<<IF runner[o] = "url" THEN UrlMapped(ReportPct(step, sub), is_video[o])
       ELSE ReportPct(step, sub),
       PROGRESS_STEPS[step].label>> :
        step \in DOMAIN PROGRESS_STEPS, sub \in {0, 1}}

StageLabels == {PROGRESS_STEPS[step].label : step \in DOMAIN PROGRESS_STEPS}

\* C22: a status query never answers with the progress of one _on_progress
\* call and the step label of another: the pair it shows for a task in its
\* pipeline is a pair one call wrote.
C22_NoTornPair ==
    \A k \in 1..Len(reply.body) :
        LET t == reply.body[k].task
        IN  t.status = "processing" /\ t.step_label \in StageLabels =>
                <<t.progress, t.step_label>> \in ReportedPairs(reply.body[k].id)

\* C23: the event loop thread, which serves the submissions and the status
\* queries, never runs a blocking extraction or analysis function itself.
C23_NoBlockingOnLoop == onloop = {}

\* C24: a submission stores its record under an id no record of the registry
\* has, and leaves every record of the registry as it was, created_at
\* included.
C24_FreshId ==
    [][nobj' = nobj + 1 =>
          /\ \E o \in reg' : o \notin reg
          /\ \A o \in reg : o \in reg' => tasks'[o] = tasks[o]]_vars

FencedText(response) ==
    LET fence == IndexOf(response, {"F"}, 1)
        close == IndexOf(response, {"F", "T"}, fence + 1)
    IN  IF fence = 0 \/ close = 0 THEN <<>>
        ELSE SubSeq(response, fence + 1, close - 1)

SpanText(response) ==
    LET first == IndexOf(response, {"{"}, 1)
        last  == RIndexOf(response, {"}"})
    IN  IF first = 0 \/ last = 0 THEN <<>> ELSE SubSeq(response, first, last)

\* C26: _parse_json_response never raises: it returns the parsed object when
\* the whole response, its ```json fenced block or its span from the first
\* "{" to the last "}" is valid JSON, tried in that order, and otherwise the
\* fallback structure with parse_error set and a summary of at most 500
\* characters.
C26_ParseNeverRaises ==
    pj.state = "done" =>
        LET response == pj.response
            result   == pj.result
        IN  /\ result.kind /= "raised"
            /\ IF Decodes(response)
               THEN result = Parsed(response)
               ELSE IF Decodes(FencedText(response))
                    THEN result = Parsed(FencedText(response))
                    ELSE IF Decodes(SpanText(response))
                         THEN result = Parsed(SpanText(response))
                         ELSE /\ result.kind = "fallback"
                              /\ result.parse_error
                              /\ result.value = <<>>
                              /\ Chars(result.summary.whole) + result.summary.cut
                                     <= SUMMARY_MAX

\* The tasks whose Pipeline.process is executing on a worker thread.
Executing == {o \in Objs : wpc[o] \notin {"idle", "ret_ok", "ret_none", "ret_exc"}}

\* C27: at most MAX_CONCURRENT_PIPELINES executions of Pipeline.process are
\* running on worker threads at any time; the slot of a task is not handed to
\* another task while the first one's stage work is still executing, the
\* task failed by the overall deadline included.
C27_RunningWithinLimit ==
    Cardinality(Executing) <= MAX_CONCURRENT_PIPELINES

\* C28: a run started by process_local never deletes the caller's source
\* file; the cleanup at the end of a run removes only files that the service
\* wrote into its upload directory.
C28_CallerFileKept ==
    \A o \in Objs : files[o].place \in {"local", "local_uploads"} => files[o].exists

\* C29: a batch upload is all-or-nothing: when a process_batch request has
\* been rejected, no record of that batch has been added to the registry and
\* no run of that batch has been scheduled.  The step that ends the loop of
\* a request without creating a record is the rejection.
C29_BatchAllOrNothing ==
    [][batch.left > 0 /\ batch'.left = 0 /\ nobj' = nobj => batch.made = 0]_vars

\* C30: a task whose step label says that the export is done has an
\* export_result that is a successful export, and a failed automatic export
\* leaves the task completed with its result as it was.
C30_ExportDoneIsExported ==
    /\ [](\A o \in reg :
             tasks[o].step_label = "export_done" =>
                 tasks[o].export_result = "exported")
    /\ [][\A o \in Objs :
             tasks[o].export_result /= "export_error" /\
             tasks'[o].export_result = "export_error" =>
                 /\ tasks'[o].status = "completed"
                 /\ tasks'[o].result = tasks[o].result]_vars

====
